---- MODULE Spec2Model ----
(***************************************************************************)
(* A model of the multi-class ByteTrack orchestrator of sbytetrack         *)
(* (src/sbytetrack/core.py, src/sbytetrack/utils.py).                      *)
(*                                                                         *)
(* Scores and thresholds are integers in hundredths (0.25 is 25).  IoU     *)
(* values and association costs are exact rationals <<num, den>>, den > 0. *)
(* A track is a record; the lists of the tracker hold records, and a track *)
(* object is identified by (epoch, internal_track_id): epoch counts the    *)
(* resets before the track was activated.  The fields cls and epoch of a   *)
(* track are history fields that the program does not have.                *)
(***************************************************************************)
EXTENDS Integers, Sequences, FiniteSets, TLC

\* ------------------------------------------------------------- bounds
MaxCallsClasses == 3
MaxCallsScores == 3
MaxCallsBoxes == 5
MaxCallsInvalid == 3
\* constructor arguments tried: the MaxInvalidStartIds start ids from NO_ID
\* downward and the start ids 0 .. MaxStartId, frame rates 0 .. MaxFrameRate,
\* buffers 0 .. MaxLostTrackBuffer; ids drawn per counter
MaxInvalidStartIds == 3
MaxStartId == 2
MaxNewIds == 2
MaxFrameRate == 30
MaxLostTrackBuffer == 10
MaxDets == 2
MaxResets == 1
MaxMinConsecutive == 2

\* ------------------------------------------- construction parameters
n_classes == 2
track_activation_threshold == 25
minimum_matching_threshold == 80
lost_track_buffer == 1
frame_rate == 30

NO_ID == -1

det_thresh == track_activation_threshold + 10

\* int(frame_rate / 30.0 * lost_track_buffer): int() truncates; for the
\* non-negative arguments below MaxFrameRate and MaxLostTrackBuffer the float
\* product truncates to the same integer as the exact quotient
max_time_lost_of(rate, buffer) == (rate * buffer) \div 30
max_time_lost == max_time_lost_of(frame_rate, lost_track_buffer)

\* ------------------------------------------------------ input universe
BoxA == <<0, 0, 10, 10>>
BoxD == <<0, 0, 10, 11>>
BoxC == <<20, 0, 30, 10>>
Classes == 0 .. (n_classes - 1)

\* A behaviour draws the detections of its calls from one of four universes:
\* several classes, several scores, several boxes, or calls whose arrays
\* differ in length or name a class that does not exist.
Profiles == {"classes", "scores", "boxes", "invalid"}
TieBreaks == {"first", "last"}

\* The configurations explored: the universe of the inputs, the tracker's
\* minimum_consecutive_frames and the assignment solver's tie-break.  The
\* universe of several boxes runs longest and is explored under one setting.
Configs ==
  [profile : Profiles \ {"boxes", "invalid"}, mcf : 1 .. MaxMinConsecutive,
   tie_break : TieBreaks]
    \cup [profile : Profiles \cap {"boxes", "invalid"}, mcf : {1}, tie_break : {"first"}]
Detection(p) ==
  IF p = "classes" THEN [xyxy : {BoxA, BoxC}, conf : {90}, cls : Classes]
  ELSE IF p = "scores" THEN [xyxy : {BoxA}, conf : {10, 20, 25, 30, 35, 90}, cls : {0}]
  ELSE IF p = "invalid" THEN [xyxy : {BoxA}, conf : {90}, cls : Classes]
  ELSE [xyxy : {BoxA, BoxD, BoxC}, conf : {90}, cls : {0}]
MaxCalls(p) ==
  IF p = "classes" THEN MaxCallsClasses
  ELSE IF p = "scores" THEN MaxCallsScores
  ELSE IF p = "invalid" THEN MaxCallsInvalid
  ELSE MaxCallsBoxes

\* ------------------------------------------------------------ helpers
Max(a, b) == IF a >= b THEN a ELSE b
Min(a, b) == IF a <= b THEN a ELSE b
Abs(a) == IF a < 0 THEN -a ELSE a

RECURSIVE GCD(_, _)
GCD(a, b) == IF b = 0 THEN a ELSE GCD(b, a % b)

\* rationals <<n, d>> with d > 0, kept in lowest terms
Rat(n, d) ==
  LET g == GCD(Abs(n), d)
  IN  IF g = 0 THEN <<0, 1>> ELSE <<n \div g, d \div g>>
RatAdd(a, b) == Rat(a[1] * b[2] + b[1] * a[2], a[2] * b[2])
RatSub(a, b) == Rat(a[1] * b[2] - b[1] * a[2], a[2] * b[2])
RatLess(a, b) == a[1] * b[2] < b[1] * a[2]
Hundredths(x) == Rat(x, 100)

Range(s) == {s[i] : i \in 1 .. Len(s)}
\* the sequence s with every element evaluated
Tup(s) == s \o <<>>
Indices(n) == Tup([i \in 1 .. n |-> i])

\* ----------------------------------------------------------- utils.py
\* IdCounter: a record [start_id, id]
IdCounter(start) == [start_id |-> start, id |-> start]

IdCounter_reset(c) == [c EXCEPT !.id = c.start_id]

\* IdCounter.__init__: raises when start_id <= NO_ID, else the counter after
\* reset(); made holds the object the caller gets, if any
IdCounter_init_clamped(start_id) ==
  [raised |-> "none", made |-> <<IdCounter_reset(IdCounter(Max(start_id, 0)))>>]
IdCounter_init(start_id) ==
  IF start_id <= NO_ID
  THEN [raised |-> "ValueError", made |-> <<>>]
  ELSE [raised |-> "none", made |-> <<IdCounter_reset(IdCounter(start_id))>>]

\* new_id: the id handed out and the counter after it
new_id_stuck(c) == [returned_id |-> c.id, counter |-> c]
new_id(c) == [returned_id |-> c.id, counter |-> [c EXCEPT !.id = c.id + 1]]

box_area(box) == (box[3] - box[1]) * (box[4] - box[2])

\* one entry of box_iou_batch: the IoU of two xyxy boxes, nan_to_num included
box_iou(a, b) ==
  LET w == Max(Min(a[3], b[3]) - Max(a[1], b[1]), 0)
      h == Max(Min(a[4], b[4]) - Max(a[2], b[2]), 0)
      area_inter == w * h
      den == box_area(a) + box_area(b) - area_inter
  IN  IF den <= 0 THEN <<0, 1>> ELSE Rat(area_inter, den)

box_iou_batch(boxes_true, boxes_detection) ==
  Tup([i \in 1 .. Len(boxes_true) |->
         Tup([j \in 1 .. Len(boxes_detection) |->
                box_iou(boxes_true[i], boxes_detection[j])])])

\* ------------------------------------------------------- track entity
tlbr_to_tlwh(b) == <<b[1], b[2], b[3] - b[1], b[4] - b[2]>>
tlwh_to_tlbr(t) == <<t[1], t[2], t[1] + t[3], t[2] + t[4]>>

\* the track's current box: the filter's position estimate, as tlbr
tlbr(track) == tlwh_to_tlbr(track.tlwh)

\* STrack(...): a track just constructed from a detection of class c
STrack(tlwh, score, c, ep) ==
  [internal_track_id |-> NO_ID, external_track_id |-> NO_ID, state |-> "New",
   is_activated |-> FALSE, tlwh |-> tlwh, score |-> score, frame_id |-> 0,
   start_frame |-> 0, tracklet_len |-> 0, cls |-> c, epoch |-> ep]

\* activate: New -> Tracked; the external id only with immediate activation
STrack_activate(track, frame, iid, eid, mcf) ==
  LET i == new_id(iid)
      e == new_id(eid)
  IN  [track |-> [track EXCEPT !.internal_track_id = i.returned_id,
                               !.external_track_id =
                                  IF mcf = 1 THEN e.returned_id ELSE @,
                               !.is_activated = (mcf = 1),
                               !.state = "Tracked",
                               !.tracklet_len = 0,
                               !.frame_id = frame,
                               !.start_frame = frame],
       iid |-> i.counter,
       eid |-> IF mcf = 1 THEN e.counter ELSE eid]

\* update: Tracked -> Tracked; confirmed once the streak reaches mcf
STrack_update(track, det, frame, eid, mcf) ==
  LET len == track.tracklet_len + 1
      confirm == ~track.is_activated /\ len >= mcf
      alloc == confirm /\ track.external_track_id = NO_ID
      e == new_id(eid)
  IN  [track |-> [track EXCEPT !.tracklet_len = len,
                               !.tlwh = det.tlwh,
                               !.score = det.score,
                               !.frame_id = frame,
                               !.state = "Tracked",
                               !.is_activated = @ \/ confirm,
                               !.external_track_id =
                                  IF alloc THEN e.returned_id ELSE @],
       eid |-> IF alloc THEN e.counter ELSE eid]

\* re_activate: Lost -> Tracked; the external id is kept
STrack_re_activate(track, det, frame) ==
  [track EXCEPT !.tlwh = det.tlwh,
                !.score = det.score,
                !.frame_id = frame,
                !.state = "Tracked",
                !.is_activated = TRUE]

\* multi_predict: one prediction step of every track of the pool.  The
\* filter's velocity is zero for a box that is observed where it was, so
\* the prediction leaves the position estimate in place.
multi_predict(tracks) == tracks

\* -------------------------------------------------- association engine
\* iou_distance: 1 - IoU of each track's box against each detection's box
iou_distance(tracks, detections) ==
  LET ious == box_iou_batch(Tup([i \in 1 .. Len(tracks) |-> tlbr(tracks[i])]),
                            Tup([j \in 1 .. Len(detections) |-> tlbr(detections[j])]))
  IN  Tup([i \in 1 .. Len(tracks) |->
             Tup([j \in 1 .. Len(detections) |-> RatSub(<<1, 1>>, ious[i][j])])])

\* fuse_score: cost := 1 - (1 - cost) * score of the detection
fuse_score(cost, detections) ==
  Tup([i \in 1 .. Len(cost) |->
         Tup([j \in 1 .. Len(detections) |->
                LET sim == RatSub(<<1, 1>>, cost[i][j])
                IN  RatSub(<<1, 1>>, Rat(sim[1] * detections[j].score, sim[2] * 100))])])

\* the assignments of rows i .. n to columns not in used, among the pairs with
\* cost < thresh: each with its rows' columns f (0 for none) and its cost,
\* an accepted pair counted against the threshold
RECURSIVE Assignments(_, _, _, _, _, _)
Assignments(cost, thresh, i, n, m, used) ==
  IF i > n THEN {[f |-> <<>>, total |-> <<0, 1>>]}
  ELSE LET free == {j \in 1 .. m :
                      j \notin used /\ RatLess(cost[i][j], Hundredths(thresh))}
           With(j) ==
             LET rest == Assignments(cost, thresh, i + 1, n, m,
                                     IF j = 0 THEN used ELSE used \cup {j})
                 gain == IF j = 0 THEN <<0, 1>>
                         ELSE RatSub(cost[i][j], Hundredths(thresh))
             IN  {[f |-> <<j>> \o a.f, total |-> RatAdd(gain, a.total)] : a \in rest}
       IN  UNION {With(j) : j \in free \cup {0}}

LexLess(f, g) ==
  \E i \in 1 .. Len(f) : f[i] < g[i] /\ \A k \in 1 .. (i - 1) : f[k] = g[k]

\* the assignments of least total cost, as rows' columns
Optimal(all) ==
  LET least == CHOOSE a \in all : \A b \in all : ~RatLess(b.total, a.total)
  IN  {a.f : a \in {b \in all : b.total = least.total}}

\* the one the solver returns among equal minima
Chosen(optimal, tie_break) ==
  IF tie_break = "first"
  THEN CHOOSE f \in optimal : \A g \in optimal : f = g \/ LexLess(f, g)
  ELSE CHOOSE f \in optimal : \A g \in optimal : f = g \/ LexLess(g, f)

\* matches, unmatched rows, unmatched columns of the assignment best
Unpacked(best, n, m) ==
  LET IsRowFree(i) == best[i] = 0
      IsColFree(j) == \A i \in 1 .. n : best[i] # j
      IsPair(p) == p[2] # 0
  IN  [matches |-> SelectSeq(Tup([i \in 1 .. n |-> <<i, best[i]>>]), IsPair),
       u_a |-> SelectSeq(Indices(n), IsRowFree),
       u_b |-> SelectSeq(Indices(m), IsColFree)]

\* linear_assignment over n rows and m columns: a minimum-cost assignment
\* among the pairs with cost < thresh; tie_break chooses among equal minima
linear_assignment(cost, n, m, thresh, tie_break) ==
  Unpacked(Chosen(Optimal(Assignments(cost, thresh, 1, n, m, {})), tie_break), n, m)

\* -------------------------------------------------------------- core.py
\* joint_tracks: a then b, the first track of each internal_track_id kept
joint_tracks_appended(track_list_a, track_list_b) == track_list_a \o track_list_b
joint_tracks(track_list_a, track_list_b) ==
  LET all == track_list_a \o track_list_b
      IsFirst(i) ==
        \A k \in 1 .. (i - 1) : all[k].internal_track_id # all[i].internal_track_id
      kept == SelectSeq(Indices(Len(all)), IsFirst)
  IN  Tup([k \in 1 .. Len(kept) |-> all[kept[k]]])

\* sub_tracks: a dict of a by internal_track_id (a key keeps the place of its
\* first track and the value of its last), minus the ids of b
sub_tracks_keep(track_list_a, track_list_b) == track_list_a
sub_tracks(track_list_a, track_list_b) ==
  LET a == track_list_a
      ids_b == {track_list_b[j].internal_track_id : j \in 1 .. Len(track_list_b)}
      IsKey(i) ==
        /\ \A k \in 1 .. (i - 1) : a[k].internal_track_id # a[i].internal_track_id
        /\ a[i].internal_track_id \notin ids_b
      keys == SelectSeq(Indices(Len(a)), IsKey)
      LastOf(i) ==
        CHOOSE k \in i .. Len(a) :
          /\ a[k].internal_track_id = a[i].internal_track_id
          /\ \A l \in (k + 1) .. Len(a) : a[l].internal_track_id # a[i].internal_track_id
  IN  Tup([k \in 1 .. Len(keys) |-> a[LastOf(keys[k])]])

\* remove_duplicate_tracks: of each pair (a, b) closer than 0.15 the b track
\* goes when a has been active strictly longer, and the a track otherwise
longer_or_equal(time_a, time_b) == time_a >= time_b
longer(time_a, time_b) == time_a > time_b

remove_duplicate_tracks(tracks_a, tracks_b) ==
  LET pairwise_distance == iou_distance(tracks_a, tracks_b)
      matching_pairs ==
        {p \in (1 .. Len(tracks_a)) \X (1 .. Len(tracks_b)) :
           RatLess(pairwise_distance[p[1]][p[2]], Hundredths(15))}
      time(t) == t.frame_id - t.start_frame
      duplicates_b == {p[2] : p \in {q \in matching_pairs :
                         longer(time(tracks_a[q[1]]), time(tracks_b[q[2]]))}}
      duplicates_a == {p[1] : p \in {q \in matching_pairs :
                         ~longer(time(tracks_a[q[1]]), time(tracks_b[q[2]]))}}
      KeepA(i) == i \notin duplicates_a
      KeepB(i) == i \notin duplicates_b
      ia == SelectSeq(Indices(Len(tracks_a)), KeepA)
      ib == SelectSeq(Indices(Len(tracks_b)), KeepB)
  IN  [a |-> Tup([k \in 1 .. Len(ia) |-> tracks_a[ia[k]]]),
       b |-> Tup([k \in 1 .. Len(ib) |-> tracks_b[ib[k]]])]

\* A reference to a track object while one class is processed: an entry of
\* self.tracked_tracks ("T"), of self.lost_tracks ("L") or a track born in
\* this call ("N").  W holds the objects: trk, lst, born.
Ref(kind, idx, track) ==
  [kind |-> kind, idx |-> idx, internal_track_id |-> track.internal_track_id]

Deref(W, r) ==
  IF r.kind = "T" THEN W.trk[r.idx]
  ELSE IF r.kind = "L" THEN W.lst[r.idx]
  ELSE W.born[r.idx]

Put(W, r, t) ==
  IF r.kind = "T" THEN [W EXCEPT !.trk[r.idx] = t]
  ELSE IF r.kind = "L" THEN [W EXCEPT !.lst[r.idx] = t]
  ELSE [W EXCEPT !.born[r.idx] = t]

DerefAll(W, refs) == Tup([k \in 1 .. Len(refs) |-> Deref(W, refs[k])])

\* a matched pair of the first or second association: update a Tracked
\* track, re_activate any other
MatchStep_renumber(W, r, det, frame, mcf) ==
  LET track == Deref(W, r)
      u == STrack_update(track, det, frame, W.eid, mcf)
      e == new_id(W.eid)
  IN  IF track.state = "Tracked"
      THEN [Put(W, r, u.track)
              EXCEPT !.eid = u.eid,
                     !.activated = Append(@, r),
                     !.matched = Append(@, [ref |-> r, before |-> track, via |-> "update"])]
      ELSE [Put(W, r, [STrack_re_activate(track, det, frame)
                         EXCEPT !.external_track_id = e.returned_id])
              EXCEPT !.eid = e.counter,
                     !.refind = Append(@, r),
                     !.matched = Append(@, [ref |-> r, before |-> track,
                                            via |-> "re_activate"])]
MatchStep(W, r, det, frame, mcf) ==
  LET track == Deref(W, r)
      u == STrack_update(track, det, frame, W.eid, mcf)
  IN  IF track.state = "Tracked"
      THEN [Put(W, r, u.track)
              EXCEPT !.eid = u.eid,
                     !.activated = Append(@, r),
                     !.matched = Append(@, [ref |-> r, before |-> track, via |-> "update"])]
      ELSE [Put(W, r, STrack_re_activate(track, det, frame))
              EXCEPT !.refind = Append(@, r),
                     !.matched = Append(@, [ref |-> r, before |-> track,
                                            via |-> "re_activate"])]

RECURSIVE MatchLoop(_, _, _, _, _, _, _)
MatchLoop(W, rows, dets, matches, k, frame, mcf) ==
  IF k > Len(matches) THEN W
  ELSE MatchLoop(MatchStep(W, rows[matches[k][1]], dets[matches[k][2]], frame, mcf),
                 rows, dets, matches, k + 1, frame, mcf)

\* for itracked, idet in matches: unconfirmed[itracked].update(...)
RECURSIVE UnconfirmedLoop(_, _, _, _, _, _, _)
UnconfirmedLoop(W, rows, dets, matches, k, frame, mcf) ==
  IF k > Len(matches) THEN W
  ELSE LET r == rows[matches[k][1]]
           track == Deref(W, r)
           u == STrack_update(track, dets[matches[k][2]], frame, W.eid, mcf)
           W1 == [Put(W, r, u.track)
                    EXCEPT !.eid = u.eid,
                           !.activated = Append(@, r),
                           !.matched = Append(@, [ref |-> r, before |-> track,
                                                  via |-> "update"])]
       IN  UnconfirmedLoop(W1, rows, dets, matches, k + 1, frame, mcf)

\* Step 4: for inew in u_detection: activate unless score < det_thresh
below_det_thresh_or_at(score) == score <= det_thresh
below_det_thresh(score) == score < det_thresh

RECURSIVE BirthLoop(_, _, _, _, _, _)
BirthLoop(W, dets, u_detection, k, frame, mcf) ==
  IF k > Len(u_detection) THEN W
  ELSE LET track == dets[u_detection[k]]
           a == STrack_activate(track, frame, W.iid, W.eid, mcf)
           W1 == IF below_det_thresh(track.score) THEN W
                 ELSE [W EXCEPT !.born = Append(@, a.track),
                                !.iid = a.iid,
                                !.eid = a.eid,
                                !.activated =
                                   Append(@, Ref("N", Len(W.born) + 1, a.track))]
       IN  BirthLoop(W1, dets, u_detection, k + 1, frame, mcf)

\* track.state = st for every track of refs that satisfies the loop's test
RECURSIVE SetState(_, _, _, _)
SetState(W, refs, st, k) ==
  IF k > Len(refs) THEN W
  ELSE SetState(Put(W, refs[k], [Deref(W, refs[k]) EXCEPT !.state = st]),
                refs, st, k + 1)

\* the score split: remain_inds, and inds_second = inds_low and inds_high
remain_inds(score) == score > track_activation_threshold
inds_second(score) == score > 10 /\ score < track_activation_threshold

\* the expiry test of Step 5
IsExpired(frame, track) == frame - track.frame_id > max_time_lost

\* the association pool of the first association
strack_pool_of(tracked_stracks, lost_tracks) == joint_tracks(tracked_stracks, lost_tracks)

\* Step 5, the sets: what the call leaves in tracked_tracks, lost_tracks and
\* removed_tracks.  old_removed is self.removed_tracks as the call found it.
reconcile_result(tracked_tracks, lost_tracks, dd, removed_stracks) ==
  [tracked_tracks |-> dd.a, lost_tracks |-> dd.b,
   removed_tracks |-> removed_stracks,
   before_dedup |-> [a |-> tracked_tracks, b |-> lost_tracks],
   dedup_dropped |-> {t.internal_track_id : t \in Range(tracked_tracks)}
                       \ {t.internal_track_id : t \in Range(dd.a)}]

reconcile_dedup(tracked_tracks, lost_tracks, removed_stracks) ==
  reconcile_result(tracked_tracks, lost_tracks,
                   remove_duplicate_tracks(tracked_tracks, lost_tracks),
                   removed_stracks)

reconcile_lost(tracked_tracks, lost, lost_stracks, old_removed, removed_stracks) ==
  reconcile_dedup(
    tracked_tracks,
    sub_tracks(sub_tracks(lost, tracked_tracks) \o lost_stracks, old_removed),
    removed_stracks)

reconcile(tracked, activated, refind, lost, lost_stracks, old_removed, removed_stracks) ==
  LET IsTracked(t) == t.state = "Tracked"
  IN  reconcile_lost(
        joint_tracks(joint_tracks(SelectSeq(tracked, IsTracked), activated), refind),
        lost, lost_stracks, old_removed, removed_stracks)

\* The working state W of one round.  trk, lst, born: the track objects;
\* iid, eid: the counters; the other fields are the round's local lists (of
\* references) and what the round records of itself.
Begin(S, tensors, c, ep) ==
  LET n == Len(tensors)
      IsRemain(i) == remain_inds(tensors[i].score)
      IsSecond(i) == inds_second(tensors[i].score)
      keep == SelectSeq(Indices(n), IsRemain)
      second == SelectSeq(Indices(n), IsSecond)
      trk_refs == Tup([i \in 1 .. Len(S.tracked_tracks) |->
                         Ref("T", i, S.tracked_tracks[i])])
      lost_refs == Tup([i \in 1 .. Len(S.lost_tracks) |->
                          Ref("L", i, S.lost_tracks[i])])
      IsUnconfirmed(r) == ~S.tracked_tracks[r.idx].is_activated
      IsConfirmed(r) == S.tracked_tracks[r.idx].is_activated
      AsFound(r) == IF r.kind = "T" THEN S.tracked_tracks[r.idx]
                    ELSE S.lost_tracks[r.idx]
      strack_pool == strack_pool_of(SelectSeq(trk_refs, IsConfirmed), lost_refs)
  IN  [trk |-> S.tracked_tracks, lst |-> S.lost_tracks, born |-> <<>>,
       iid |-> S.iid, eid |-> S.eid,
       activated |-> <<>>, refind |-> <<>>, lost_stracks |-> <<>>,
       removed_stracks |-> <<>>, matched |-> <<>>,
       scores |-> Tup([i \in 1 .. n |-> tensors[i].score]),
       scores_keep |-> Tup([k \in 1 .. Len(keep) |-> tensors[keep[k]].score]),
       scores_second |-> Tup([k \in 1 .. Len(second) |-> tensors[second[k]].score]),
       detections |->
         Tup([k \in 1 .. Len(keep) |->
                STrack(tlbr_to_tlwh(tensors[keep[k]].tlbr), tensors[keep[k]].score,
                       c, ep)]),
       detections_second |->
         Tup([k \in 1 .. Len(second) |->
                STrack(tlbr_to_tlwh(tensors[second[k]].tlbr), tensors[second[k]].score,
                       c, ep)]),
       unconfirmed |-> SelectSeq(trk_refs, IsUnconfirmed),
       lost_refs |-> lost_refs,
       strack_pool |-> strack_pool,
       pool_states |-> {[cls |-> AsFound(r).cls, state |-> AsFound(r).state] :
                          r \in Range(strack_pool)},
       u_track |-> <<>>, u_detection |-> <<>>, kept_low |-> 0, left |-> <<>>]

\* Step 2: first association, with the high score detections
FirstMatched(W, la, frame, mcf) ==
  [MatchLoop(W, W.strack_pool, W.detections, la.matches, 1, frame, mcf)
     EXCEPT !.u_track = la.u_a, !.u_detection = la.u_b]

FirstAssociation(W, frame, mcf, tie_break) ==
  FirstMatched(
    W,
    linear_assignment(
      fuse_score(iou_distance(multi_predict(DerefAll(W, W.strack_pool)), W.detections),
                 W.detections),
      Len(W.strack_pool), Len(W.detections), minimum_matching_threshold, tie_break),
    frame, mcf)

\* Step 3: second association, with the low score detections
MarkLost(W, lost_stracks) ==
  [SetState(W, lost_stracks, "Lost", 1) EXCEPT !.lost_stracks = lost_stracks]

NotYetLost(W, r_tracked_stracks, u_track) ==
  LET NotLost(i) == Deref(W, r_tracked_stracks[i]).state # "Lost"
      lost_idx == SelectSeq(u_track, NotLost)
  IN  Tup([k \in 1 .. Len(lost_idx) |-> r_tracked_stracks[lost_idx[k]]])

SecondUnmatched(W, r_tracked_stracks, u_track) ==
  MarkLost(W, NotYetLost(W, r_tracked_stracks, u_track))

SecondMatched(W, r_tracked_stracks, la, frame, mcf) ==
  SecondUnmatched(
    [MatchLoop(W, r_tracked_stracks, W.detections_second, la.matches, 1, frame, mcf)
       EXCEPT !.kept_low = Len(la.matches)],
    r_tracked_stracks, la.u_a)

SecondOver(W, r_tracked_stracks, frame, mcf, tie_break) ==
  SecondMatched(
    W, r_tracked_stracks,
    linear_assignment(
      iou_distance(DerefAll(W, r_tracked_stracks), W.detections_second),
      Len(r_tracked_stracks), Len(W.detections_second), 50, tie_break),
    frame, mcf)

StillTracked(W) ==
  LET IsStillTracked(i) == Deref(W, W.strack_pool[i]).state = "Tracked"
      r_idx == SelectSeq(W.u_track, IsStillTracked)
  IN  Tup([k \in 1 .. Len(r_idx) |-> W.strack_pool[r_idx[k]]])

SecondAssociation(W, frame, mcf, tie_break) ==
  SecondOver(W, StillTracked(W), frame, mcf, tie_break)

\* tracks marked Removed in this round
MarkRemoved(W, refs) ==
  [SetState(W, refs, "Removed", 1) EXCEPT !.removed_stracks = @ \o refs]

\* the unconfirmed tracks, then Step 4: new tracks
UnconfirmedMatched(W, detections, la, frame, mcf) ==
  [BirthLoop(
     MarkRemoved(
       UnconfirmedLoop(W, W.unconfirmed, detections, la.matches, 1, frame, mcf),
       Tup([k \in 1 .. Len(la.u_a) |-> W.unconfirmed[la.u_a[k]]])),
     detections, la.u_b, 1, frame, mcf)
   EXCEPT !.left = Tup([k \in 1 .. Len(la.u_b) |->
                          [tlwh |-> detections[la.u_b[k]].tlwh,
                           score |-> detections[la.u_b[k]].score]])]

UnconfirmedOver(W, detections, frame, mcf, tie_break) ==
  UnconfirmedMatched(
    W, detections,
    linear_assignment(
      fuse_score(iou_distance(DerefAll(W, W.unconfirmed), detections), detections),
      Len(W.unconfirmed), Len(detections), 70, tie_break),
    frame, mcf)

UnconfirmedAndNew(W, frame, mcf, tie_break) ==
  UnconfirmedOver(
    W, Tup([k \in 1 .. Len(W.u_detection) |-> W.detections[W.u_detection[k]]]),
    frame, mcf, tie_break)

\* Step 5: the lost tracks that expire
Expire(W, frame) ==
  LET Expired(r) == IsExpired(frame, Deref(W, r))
  IN  MarkRemoved(W, SelectSeq(W.lost_refs, Expired))

\* what the round leaves and returns, and its record
Outcome(S, W, rec, frame, c) ==
  LET IsActivated(t) == t.is_activated
  IN  [frame_id |-> frame,
       tracked_tracks |-> rec.tracked_tracks,
       lost_tracks |-> rec.lost_tracks,
       removed_tracks |-> rec.removed_tracks,
       iid |-> W.iid,
       eid |-> W.eid,
       output_stracks |-> SelectSeq(rec.tracked_tracks, IsActivated),
       log |-> [cls |-> c,
                frame_id |-> frame,
                scores |-> W.scores,
                scores_keep |-> W.scores_keep,
                scores_second |-> W.scores_second,
                strack_pool |-> W.pool_states,
                matched |-> Tup([k \in 1 .. Len(W.matched) |->
                                   [before |-> W.matched[k].before,
                                    after |-> Deref(W, W.matched[k].ref),
                                    via |-> W.matched[k].via]]),
                kept_low |-> W.kept_low,
                u_first |-> Len(W.u_detection),
                left |-> W.left,
                born |-> W.born,
                iid_before |-> S.iid.id,
                iid_after |-> W.iid.id,
                dedup_dropped |-> rec.dedup_dropped,
                before_dedup |-> rec.before_dedup,
                after_dedup |-> [a |-> rec.tracked_tracks, b |-> rec.lost_tracks],
                eid_before |-> S.eid.id,
                eid_after |-> W.eid.id]]

Finish(S, W, frame, c) ==
  Outcome(S, W,
          reconcile(W.trk, DerefAll(W, W.activated), DerefAll(W, W.refind),
                    W.lst, DerefAll(W, W.lost_stracks), S.removed_tracks,
                    DerefAll(W, W.removed_stracks)),
          frame, c)

\* update_with_tensors: one class's detections (tensors: [tlbr, score]) against
\* the tracker fields S; c, tie_break, mcf, ep as above
update_with_tensors(S, tensors, c, tie_break, mcf, ep) ==
  Finish(
    S,
    Expire(
      UnconfirmedAndNew(
        SecondAssociation(
          FirstAssociation(Begin(S, tensors, c, ep), S.frame_id + 1, mcf, tie_break),
          S.frame_id + 1, mcf, tie_break),
        S.frame_id + 1, mcf, tie_break),
      S.frame_id + 1),
    S.frame_id + 1, c)

\* single_cls_update: the ids of one class's detections, in the class's order
track_ids(r, la, conf_array) ==
  LET tracks == r.output_stracks
      IdOf(i) ==
        IF \E k \in 1 .. Len(la.matches) : la.matches[k][1] = i
        THEN LET k == CHOOSE k \in 1 .. Len(la.matches) : la.matches[k][1] = i
             IN  tracks[la.matches[k][2]].external_track_id
        ELSE -1
  IN  [S |-> [frame_id |-> r.frame_id, tracked_tracks |-> r.tracked_tracks,
              lost_tracks |-> r.lost_tracks, removed_tracks |-> r.removed_tracks,
              iid |-> r.iid, eid |-> r.eid],
       track_id_array |-> Tup([i \in 1 .. Len(conf_array) |-> IdOf(i)]),
       log |-> <<r.log>>]

iou_costs_of(ious) ==
  Tup([i \in 1 .. Len(ious) |->
         Tup([j \in 1 .. Len(ious[i]) |-> RatSub(<<1, 1>>, ious[i][j])])])

aligned(r, xyxy_array, conf_array, tie_break) ==
  track_ids(
    r,
    linear_assignment(
      iou_costs_of(
        box_iou_batch(xyxy_array,
                      Tup([j \in 1 .. Len(r.output_stracks) |->
                             tlbr(r.output_stracks[j])]))),
      Len(xyxy_array), Len(r.output_stracks), 50, tie_break),
    conf_array)

single_cls_update(S, xyxy_array, conf_array, c, tie_break, mcf, ep) ==
  IF Len(xyxy_array) * Len(conf_array) = 0
  THEN [S |-> S, track_id_array |-> <<>>, log |-> <<>>]
  ELSE aligned(
         update_with_tensors(
           S,
           Tup([i \in 1 .. Len(xyxy_array) |->
                  [tlbr |-> xyxy_array[i], score |-> conf_array[i]]]),
           c, tie_break, mcf, ep),
         xyxy_array, conf_array, tie_break)

\* _cls_group: per class the boxes, the confidences and the 0-based input
\* positions of its detections, taken from the zipped input arrays
cls_group(xyxy_array, conf_array, cls_array) ==
  LET n == Min(Len(xyxy_array), Min(Len(conf_array), Len(cls_array)))
  IN  [cls_id \in Classes |->
         LET IsCls(i) == cls_array[i] = cls_id
             idx == SelectSeq(Indices(n), IsCls)
         IN  [xyxy |-> Tup([k \in 1 .. Len(idx) |-> xyxy_array[idx[k]]]),
              conf |-> Tup([k \in 1 .. Len(idx) |-> conf_array[idx[k]]]),
              order |-> Tup([k \in 1 .. Len(idx) |-> idx[k] - 1])]]

\* the fields a round works on: the class's tracked set, the frame counter
\* put back to the call's start
ClassState(T, cls_id, current_frame_id) ==
  [frame_id |-> current_frame_id,
   tracked_tracks |-> T.cls2tracked_tracks[cls_id],
   lost_tracks |-> T.lost_tracks,
   removed_tracks |-> T.removed_tracks,
   iid |-> T.iid, eid |-> T.eid]

\* the tracker and the gathered arrays after a class's round r
ClassDone(acc, cls_id, b, r) ==
  [T |-> [acc.T EXCEPT !.frame_id = r.S.frame_id,
                       !.tracked_tracks = r.S.tracked_tracks,
                       !.lost_tracks = r.S.lost_tracks,
                       !.removed_tracks = r.S.removed_tracks,
                       !.iid = r.S.iid,
                       !.eid = r.S.eid,
                       !.cls2tracked_tracks[cls_id] = r.S.tracked_tracks],
   track_id_array |-> acc.track_id_array \o r.track_id_array,
   orig_order |-> acc.orig_order \o b.order,
   log |-> acc.log \o r.log]

ClassIdle(acc, cls_id, e) ==
  [acc EXCEPT !.T.tracked_tracks = e.tracked_tracks,
              !.T.lost_tracks = e.lost_tracks,
              !.T.removed_tracks = e.removed_tracks,
              !.T.cls2tracked_tracks[cls_id] = e.tracked_tracks]

ClassStep_every_class(acc, cls_id, cls2boxes, current_frame_id, tie_break) ==
  IF Len(cls2boxes[cls_id].xyxy) < 1
  THEN ClassIdle(acc, cls_id,
                 update_with_tensors(ClassState(acc.T, cls_id, current_frame_id),
                                     <<>>, cls_id, tie_break, acc.T.mcf, acc.T.epoch))
  ELSE ClassDone(acc, cls_id, cls2boxes[cls_id],
                 single_cls_update(ClassState(acc.T, cls_id, current_frame_id),
                                   cls2boxes[cls_id].xyxy, cls2boxes[cls_id].conf,
                                   cls_id, tie_break, acc.T.mcf, acc.T.epoch))

\* one round of the loop over the classes in update.  acc: the tracker T, the
\* ids and the input positions gathered so far, and the rounds' logs
ClassStep(acc, cls_id, cls2boxes, current_frame_id, tie_break) ==
  IF Len(cls2boxes[cls_id].xyxy) < 1 THEN acc
  ELSE ClassDone(acc, cls_id, cls2boxes[cls_id],
                 single_cls_update(ClassState(acc.T, cls_id, current_frame_id),
                                   cls2boxes[cls_id].xyxy, cls2boxes[cls_id].conf,
                                   cls_id, tie_break, acc.T.mcf, acc.T.epoch))

RECURSIVE ClassLoop(_, _, _, _, _)
ClassLoop(acc, cls_id, cls2boxes, current_frame_id, tie_break) ==
  IF cls_id >= n_classes THEN acc
  ELSE ClassLoop(ClassStep(acc, cls_id, cls2boxes, current_frame_id, tie_break),
                 cls_id + 1, cls2boxes, current_frame_id, tie_break)

\* np.argsort: the positions of a in ascending order of value (stable)
argsort(a) ==
  Tup([k \in 1 .. Len(a) |->
         CHOOSE p \in 1 .. Len(a) :
           Cardinality({q \in 1 .. Len(a) :
                          a[q] < a[p] \/ (a[q] = a[p] /\ q < p)}) = k - 1])

\* track_id_array[np.argsort(orig_order)]
permuted(track_id_array, perm) ==
  Tup([k \in 1 .. Len(perm) |-> track_id_array[perm[k]]])

in_input_order_unsorted(track_id_array, orig_order) == track_id_array
in_input_order(track_id_array, orig_order) ==
  permuted(track_id_array, argsort(orig_order))

\* the frame counter that update leaves
frame_after_loop(current_frame_id, loop_frame_id) == loop_frame_id
frame_after(current_frame_id, loop_frame_id) == current_frame_id + 1

\* update: the tracker after the call, the returned array and the log
returned(current_frame_id, acc) ==
  [T |-> [acc.T EXCEPT !.frame_id = frame_after(current_frame_id, acc.T.frame_id)],
   out |-> in_input_order(acc.track_id_array, acc.orig_order),
   log |-> acc.log,
   raised |-> "none"]

\* _cls_group files each zipped row under cls2boxes[cls_id]: a class id that
\* is no key of the dict raises KeyError, before update has touched self
unknown_cls_id_filed(xyxy_array, conf_array, cls_array) == FALSE
unknown_cls_id(xyxy_array, conf_array, cls_array) ==
  \E i \in 1 .. Min(Len(xyxy_array), Min(Len(conf_array), Len(cls_array))) :
    cls_array[i] \notin Classes

update(T, xyxy_array, conf_array, cls_array, tie_break) ==
  IF unknown_cls_id(xyxy_array, conf_array, cls_array)
  THEN [T |-> T, out |-> <<>>, log |-> <<>>, raised |-> "KeyError"]
  ELSE returned(T.frame_id,
                ClassLoop([T |-> T, track_id_array |-> <<>>, orig_order |-> <<>>,
                           log |-> <<>>],
                          0, cls_group(xyxy_array, conf_array, cls_array), T.frame_id,
                          tie_break))

\* reset
reset(T) ==
  [T EXCEPT !.frame_id = 0,
            !.iid = IdCounter_reset(T.iid),
            !.eid = IdCounter_reset(T.eid),
            !.tracked_tracks = <<>>,
            !.lost_tracks = <<>>,
            !.removed_tracks = <<>>]

\* --------------------------------------------------------------- state
VARIABLES
  frame_id,
  tracked_tracks,
  lost_tracks,
  removed_tracks,
  internal_id_counter,
  external_id_counter,
  cls2tracked_tracks,
  minimum_consecutive_frames,
  profile,      \* the universe the calls' detections are drawn from
  tie_break,    \* the tie-break of the assignment solver
  epoch,        \* history: the resets so far
  calls,        \* history: the calls so far
  last          \* history: the last call, its classes, result and log

vars == <<frame_id, tracked_tracks, lost_tracks, removed_tracks,
          internal_id_counter, external_id_counter, cls2tracked_tracks,
          minimum_consecutive_frames, profile, tie_break, epoch, calls, last>>

Tracker ==
  [frame_id |-> frame_id, tracked_tracks |-> tracked_tracks,
   lost_tracks |-> lost_tracks, removed_tracks |-> removed_tracks,
   iid |-> internal_id_counter, eid |-> external_id_counter,
   cls2tracked_tracks |-> cls2tracked_tracks,
   mcf |-> minimum_consecutive_frames, epoch |-> epoch]

NoCall ==
  [op |-> "init", xyxy_array |-> <<>>, cls_array |-> <<>>, out |-> <<>>,
   log |-> <<>>, frame_before |-> 0, lens |-> <<0, 0, 0>>, raised |-> "none"]

\* BYTETrack.__init__
Init ==
  /\ frame_id = 0
  /\ tracked_tracks = <<>>
  /\ lost_tracks = <<>>
  /\ removed_tracks = <<>>
  /\ internal_id_counter = IdCounter(0)
  /\ external_id_counter = IdCounter(1)
  /\ cls2tracked_tracks = [c \in Classes |-> <<>>]
  /\ \E cfg \in Configs :
       /\ minimum_consecutive_frames = cfg.mcf
       /\ profile = cfg.profile
       /\ tie_break = cfg.tie_break
  /\ epoch = 0
  /\ calls = 0
  /\ last = NoCall

Install(T) ==
  /\ frame_id' = T.frame_id
  /\ tracked_tracks' = T.tracked_tracks
  /\ lost_tracks' = T.lost_tracks
  /\ removed_tracks' = T.removed_tracks
  /\ internal_id_counter' = T.iid
  /\ external_id_counter' = T.eid
  /\ cls2tracked_tracks' = T.cls2tracked_tracks

\* the inputs of one call: up to MaxDets detections; in the "boxes" profile
\* the boxes of a call are distinct and come in a fixed order
BoxRank(b) == IF b = BoxA THEN 1 ELSE IF b = BoxD THEN 2 ELSE 3
DetSeqs(p) ==
  LET all == UNION {[1 .. n -> Detection(p)] : n \in 0 .. MaxDets}
  IN  IF p = "boxes"
      THEN {s \in all : \A i, j \in 1 .. Len(s) :
                           i < j => BoxRank(s[i].xyxy) < BoxRank(s[j].xyxy)}
      ELSE all

Update ==
  /\ calls < MaxCalls(profile)
  /\ \E dets \in DetSeqs(profile) :
       \E r \in {update(Tracker,
                        Tup([i \in 1 .. Len(dets) |-> dets[i].xyxy]),
                        Tup([i \in 1 .. Len(dets) |-> dets[i].conf]),
                        Tup([i \in 1 .. Len(dets) |-> dets[i].cls]),
                        tie_break)} :
         /\ Install(r.T)
         /\ last' = [op |-> "update",
                     xyxy_array |-> Tup([i \in 1 .. Len(dets) |-> dets[i].xyxy]),
                     cls_array |-> Tup([i \in 1 .. Len(dets) |-> dets[i].cls]),
                     out |-> r.out, log |-> r.log, frame_before |-> frame_id,
                     lens |-> <<Len(dets), Len(dets), Len(dets)>>,
                     raised |-> r.raised]
  /\ calls' = calls + 1
  /\ UNCHANGED <<minimum_consecutive_frames, profile, tie_break, epoch>>

Reset ==
  /\ calls < MaxCalls(profile)
  /\ epoch < MaxResets
  /\ \E T \in {reset(Tracker)} : Install(T)
  /\ epoch' = epoch + 1
  /\ calls' = calls + 1
  /\ last' = [op |-> "reset", xyxy_array |-> <<>>, cls_array |-> <<>>,
              out |-> <<>>, log |-> <<>>, frame_before |-> frame_id,
              lens |-> <<0, 0, 0>>, raised |-> "none"]
  /\ UNCHANGED <<minimum_consecutive_frames, profile, tie_break>>

\* the arrays of a call that the interface does not allow: a class id that
\* is no class, or one array a row shorter than the other two
ButLast(a) == SubSeq(a, 1, Len(a) - 1)
InvalidInputs ==
  LET rows == [xyxy : {BoxA}, conf : {90}, cls : Classes \cup {-1, n_classes}]
      dets == UNION {[1 .. n -> rows] : n \in 1 .. MaxDets}
      Arrays(d, short) ==
        LET x == Tup([i \in 1 .. Len(d) |-> d[i].xyxy])
            c == Tup([i \in 1 .. Len(d) |-> d[i].conf])
            k == Tup([i \in 1 .. Len(d) |-> d[i].cls])
        IN  [xyxy_array |-> IF short = "xyxy_array" THEN ButLast(x) ELSE x,
             conf_array |-> IF short = "conf_array" THEN ButLast(c) ELSE c,
             cls_array |-> IF short = "cls_array" THEN ButLast(k) ELSE k]
      all == {Arrays(d, short) :
                d \in dets, short \in {"none", "xyxy_array", "conf_array", "cls_array"}}
  IN  {a \in all :
         \/ Len(a.xyxy_array) # Len(a.conf_array)
         \/ Len(a.conf_array) # Len(a.cls_array)
         \/ \E i \in 1 .. Len(a.cls_array) : a.cls_array[i] \notin Classes}

\* update called with such arrays
UpdateInvalid ==
  /\ profile = "invalid"
  /\ calls < MaxCalls(profile)
  /\ \E a \in InvalidInputs :
       \E r \in {update(Tracker, a.xyxy_array, a.conf_array, a.cls_array, tie_break)} :
         /\ Install(r.T)
         /\ last' = [op |-> "update_invalid",
                     xyxy_array |-> a.xyxy_array,
                     cls_array |-> a.cls_array,
                     out |-> r.out, log |-> r.log, frame_before |-> frame_id,
                     lens |-> <<Len(a.xyxy_array), Len(a.conf_array),
                                Len(a.cls_array)>>,
                     raised |-> r.raised]
  /\ calls' = calls + 1
  /\ UNCHANGED <<minimum_consecutive_frames, profile, tie_break, epoch>>

Next == Update \/ Reset \/ UpdateInvalid

Spec == Init /\ [][Next]_vars

\* ------------------------------------------------------- construction
\* A second specification: the constructors called with arguments of the
\* caller's choice.  internal_id_counter is the counter the caller holds,
\* last the call just made.
NoConstruct ==
  [op |-> "init", start_id |-> 0, raised |-> "none", made |-> <<>>,
   handed |-> <<>>, rate |-> frame_rate, buffer |-> lost_track_buffer,
   max_time_lost |-> max_time_lost]

InitConstruct ==
  /\ frame_id = 0
  /\ tracked_tracks = <<>>
  /\ lost_tracks = <<>>
  /\ removed_tracks = <<>>
  /\ internal_id_counter = IdCounter(0)
  /\ external_id_counter = IdCounter(1)
  /\ cls2tracked_tracks = [c \in Classes |-> <<>>]
  /\ minimum_consecutive_frames = 1
  /\ profile = "classes"
  /\ tie_break = "first"
  /\ epoch = 0
  /\ calls = 0
  /\ last = NoConstruct

\* counter = IdCounter(start_id): on an exception the caller keeps the counter
\* it had
ConstructIdCounter ==
  /\ \E start_id \in (NO_ID - MaxInvalidStartIds + 1) .. MaxStartId :
       \E r \in {IdCounter_init(start_id)} :
         /\ internal_id_counter' =
              IF r.raised = "none" THEN r.made[1] ELSE internal_id_counter
         /\ last' = [NoConstruct EXCEPT !.op = "IdCounter", !.start_id = start_id,
                                        !.raised = r.raised, !.made = r.made]
  /\ UNCHANGED <<frame_id, tracked_tracks, lost_tracks, removed_tracks,
                 external_id_counter, cls2tracked_tracks,
                 minimum_consecutive_frames, profile, tie_break, epoch, calls>>

\* counter.new_id()
CounterNewId ==
  /\ internal_id_counter.id < internal_id_counter.start_id + MaxNewIds
  /\ \E r \in {new_id(internal_id_counter)} :
       /\ internal_id_counter' = r.counter
       /\ last' = [NoConstruct EXCEPT !.op = "new_id",
                                      !.start_id = internal_id_counter.start_id,
                                      !.handed = <<r.returned_id>>]
  /\ UNCHANGED <<frame_id, tracked_tracks, lost_tracks, removed_tracks,
                 external_id_counter, cls2tracked_tracks,
                 minimum_consecutive_frames, profile, tie_break, epoch, calls>>

\* counter.reset()
CounterReset ==
  /\ internal_id_counter' = IdCounter_reset(internal_id_counter)
  /\ last' = [NoConstruct EXCEPT !.op = "reset",
                                 !.start_id = internal_id_counter.start_id]
  /\ UNCHANGED <<frame_id, tracked_tracks, lost_tracks, removed_tracks,
                 external_id_counter, cls2tracked_tracks,
                 minimum_consecutive_frames, profile, tie_break, epoch, calls>>

\* BYTETrack(frame_rate = rate, lost_track_buffer = buffer)
ConstructTracker ==
  /\ \E rate \in 0 .. MaxFrameRate, buffer \in 0 .. MaxLostTrackBuffer :
       last' = [NoConstruct EXCEPT !.op = "BYTETrack", !.rate = rate,
                                  !.buffer = buffer,
                                  !.max_time_lost = max_time_lost_of(rate, buffer)]
  /\ frame_id' = 0
  /\ tracked_tracks' = <<>>
  /\ lost_tracks' = <<>>
  /\ removed_tracks' = <<>>
  /\ internal_id_counter' = IdCounter_init(0).made[1]
  /\ external_id_counter' = IdCounter_init(1).made[1]
  /\ cls2tracked_tracks' = [c \in Classes |-> <<>>]
  /\ UNCHANGED <<minimum_consecutive_frames, profile, tie_break, epoch, calls>>

NextConstruct ==
  ConstructIdCounter \/ CounterNewId \/ CounterReset \/ ConstructTracker

SpecConstruct == InitConstruct /\ [][NextConstruct]_vars

\* -------------------------------------------------------------- claims
Runs == Range(last.log)
Live ==
  LET RECURSIVE Cat(_)
      Cat(c) == IF c >= n_classes THEN lost_tracks
                ELSE cls2tracked_tracks[c] \o Cat(c + 1)
  IN  Cat(0)
Updated == last.op = "update"
NoReset == epoch = 0

\* C1: the array update returns has one entry per input detection, and entry i
\* is -1 or the external id of a track of the tracked set of detection i's
\* class whose box overlaps detection i's box by more than half, in whatever
\* order the classes come in the input.
C1_OutputAligned ==
  Updated =>
    /\ Len(last.out) = Len(last.cls_array)
    /\ \A i \in 1 .. Len(last.out) :
         \/ last.out[i] = -1
         \/ \E t \in Range(cls2tracked_tracks[last.cls_array[i]]) :
              /\ t.external_track_id = last.out[i]
              /\ RatLess(RatSub(<<1, 1>>, box_iou(last.xyxy_array[i], tlbr(t))),
                         Hundredths(50))
C1_Witness ==
  /\ Updated
  /\ last.cls_array = <<1, 0>>
  /\ last.out[1] # -1 /\ last.out[2] # -1 /\ last.out[1] # last.out[2]

\* C2: once more than max_time_lost update calls have passed since a track was
\* last matched, no later update returns that track's external id, whether or
\* not the calls in between carried detections.  Stated for a track of the
\* round's own class that no round has sent to Lost since its last match.
C2_NoStaleId ==
  (Updated /\ NoReset) =>
    \A run \in Runs :
      \A k \in 1 .. Len(run.matched) :
        LET m == run.matched[k]
        IN  ( /\ m.before.cls = run.cls
              /\ m.before.state = "Tracked"
              /\ \E i \in 1 .. Len(last.out) :
                   last.out[i] = m.after.external_track_id )
              => (run.frame_id - 1) - m.before.frame_id <= max_time_lost

\* C3: a class's round draws its pool from tracks of that class only and
\* matches detections to tracks of that class only, and every tracked set
\* holds tracks born in its own class only.
C3_ClassIsolation ==
  (Updated /\ NoReset) =>
    /\ \A run \in Runs :
         /\ \A p \in run.strack_pool : p.cls = run.cls
         /\ \A k \in 1 .. Len(run.matched) : run.matched[k].before.cls = run.cls
    /\ \A c \in Classes :
         \A t \in Range(cls2tracked_tracks[c]) : t.cls = c

\* C4: reset leaves the tracker as a fresh instance: frame counter 0, no
\* tracked, lost or removed track of any class, both id counters at their
\* start values.
C4_ResetIsFresh ==
  last.op = "reset" =>
    /\ frame_id = 0
    /\ tracked_tracks = <<>> /\ lost_tracks = <<>> /\ removed_tracks = <<>>
    /\ \A c \in Classes : cls2tracked_tracks[c] = <<>>
    /\ internal_id_counter = IdCounter(0)
    /\ external_id_counter = IdCounter(1)

\* C5: in a sequence of update calls, no two tracks that are not Removed and
\* that hold an external id hold the same one.
C5_UniqueExternalIds ==
  NoReset =>
    \A i, j \in 1 .. Len(Live) :
      ( /\ i # j
        /\ Live[i].state # "Removed" /\ Live[j].state # "Removed"
        /\ Live[i].external_track_id # NO_ID )
        => Live[i].external_track_id # Live[j].external_track_id
C5_Witness ==
  /\ NoReset
  /\ \E i, j \in 1 .. Len(Live) :
       /\ Live[i].state = "Tracked" /\ Live[j].state = "Lost"
       /\ Live[i].external_track_id # NO_ID
       /\ Live[j].external_track_id # NO_ID
       /\ Live[i].cls # Live[j].cls

\* C6: a track that was marked Removed is never again a candidate of an
\* association and is never matched, updated or re-activated.  Stated for the
\* rounds of the track's own class in calls that carry one class only.
C6_RemovedIsTerminal ==
  (Updated /\ NoReset /\ Len(last.log) = 1) =>
    \A run \in Runs :
      /\ \A p \in run.strack_pool : p.cls = run.cls => p.state # "Removed"
      /\ \A k \in 1 .. Len(run.matched) :
           run.matched[k].before.cls = run.cls
             => run.matched[k].before.state # "Removed"

C8_FrameAdvance ==
  Updated =>
    /\ frame_id = last.frame_before + 1
    /\ \A run \in Runs : run.frame_id = last.frame_before + 1
C8_Witness ==
  /\ Updated
  /\ Len(last.log) = 2
  /\ last.frame_before >= 1

\* C9: update with no detection returns the empty array, advances the frame
\* counter by one and changes no track and no id counter.
C9_EmptyUpdate ==
  [][(last'.op = "update" /\ last'.cls_array = <<>>) =>
       /\ last'.out = <<>>
       /\ frame_id' = frame_id + 1
       /\ UNCHANGED <<tracked_tracks, lost_tracks, removed_tracks,
                      internal_id_counter, external_id_counter,
                      cls2tracked_tracks>>]_vars
C9_Witness ==
  /\ Updated
  /\ last.cls_array = <<>>
  /\ \E c \in Classes : cls2tracked_tracks[c] # <<>>
  /\ frame_id > 0

\* C10: a detection scoring above the activation threshold is a high
\* detection, one scoring above 0.1 and at most the activation threshold is a
\* second-tier detection, and any other is discarded.
C10_ScoreTiers ==
  Updated =>
    \A run \in Runs :
      LET High(sc) == sc > track_activation_threshold
          Second(sc) == sc > 10 /\ sc <= track_activation_threshold
      IN  /\ run.scores_keep = SelectSeq(run.scores, High)
          /\ run.scores_second = SelectSeq(run.scores, Second)

\* C11: after every update call no track object is twice among the tracked
\* sets of the classes and the lost list: not in a tracked set and the lost
\* list, not in two tracked sets, not twice in one.
C11_ExclusiveOwnership ==
  Updated =>
    \A i, j \in 1 .. Len(Live) :
      i # j => <<Live[i].epoch, Live[i].internal_track_id>>
                 # <<Live[j].epoch, Live[j].internal_track_id>>
C11_Witness ==
  /\ Updated
  /\ lost_tracks # <<>>
  /\ \E run \in Runs :
       \E k \in 1 .. Len(run.matched) :
         /\ run.matched[k].via = "re_activate"
         /\ \E t \in Range(cls2tracked_tracks[run.cls]) :
              t.internal_track_id = run.matched[k].before.internal_track_id

TrackerFields ==
  <<frame_id, tracked_tracks, lost_tracks, removed_tracks,
    internal_id_counter, external_id_counter, cls2tracked_tracks>>

\* C12: an update call whose three arrays are not of one length fails with an
\* error and leaves the frame counter, every track list and both id counters
\* as they were.
C12_UnequalLengthsFail ==
  [][( /\ last'.op = "update_invalid"
       /\ \/ last'.lens[1] # last'.lens[2]
          \/ last'.lens[2] # last'.lens[3] )
       => (last'.raised # "none" /\ UNCHANGED TrackerFields)]_vars

\* C13: an update call in which a zipped row names a class id outside
\* 0 .. n_classes - 1 raises, and leaves the frame counter, every track list
\* and both id counters as they were, also when other rows of the call name
\* classes that exist.
C13_UnknownClassFails ==
  [][( /\ last'.op = "update_invalid"
       /\ \E i \in 1 .. Min(last'.lens[1], Min(last'.lens[2], last'.lens[3])) :
            last'.cls_array[i] \notin Classes )
       => (last'.raised = "KeyError" /\ last'.out = <<>> /\ UNCHANGED TrackerFields)]_vars
C13_Witness ==
  /\ last.op = "update_invalid"
  /\ last.raised = "KeyError"
  /\ last.lens = <<2, 2, 2>>
  /\ \E i \in 1 .. 2 : last.cls_array[i] \in Classes
  /\ \E c \in Classes : cls2tracked_tracks[c] # <<>>
  /\ frame_id > 0

\* C14: IdCounter(start_id) with start_id <= NO_ID = -1 raises and hands the
\* caller no counter (the counter the caller held is as it was, nothing is
\* clamped); with start_id >= 0 it raises nothing, the counter made starts at
\* start_id, and the first new_id() after it returns start_id.
C14_StartIdChecked ==
  [][ /\ (last'.op = "IdCounter" /\ last'.start_id <= NO_ID)
         => /\ last'.raised = "ValueError"
            /\ last'.made = <<>>
            /\ internal_id_counter' = internal_id_counter
      /\ (last'.op = "IdCounter" /\ last'.start_id >= 0)
         => /\ last'.raised = "none"
            /\ last'.made = <<internal_id_counter'>>
            /\ internal_id_counter'.start_id = last'.start_id
            /\ internal_id_counter'.id = last'.start_id
      /\ (last.op = "IdCounter" /\ last.raised = "none" /\ last'.op = "new_id")
         => last'.handed = <<last.start_id>> ]_vars
C14_Witness ==
  /\ last.op = "IdCounter"
  /\ last.start_id = NO_ID
  /\ last.raised = "ValueError"
  /\ internal_id_counter.start_id = MaxStartId
  /\ internal_id_counter.id = MaxStartId + 1

\* C19: for every frame_rate and lost_track_buffer >= 0 the tracker built
\* from them has max_time_lost = lost_track_buffer * frame_rate / 30 rounded
\* to the nearest integer (at most one half away from the quotient).
C19_WindowRounded ==
  last.op = "BYTETrack"
    => 2 * Abs(30 * last.max_time_lost - last.buffer * last.rate) <= 30

SameTrack(a, b) ==
  a.epoch = b.epoch /\ a.internal_track_id = b.internal_track_id

\* C15: after an update call every track that was confirmed and in a tracked
\* set before the call and that no association of the call matched is in no
\* tracked set and is in the lost list in state Lost, whatever its class and
\* whether or not its class had a detection in the call.
C15_UnmatchedGoesLost ==
  [][ last'.op = "update"
      => \A c \in Classes :
           \A t \in Range(cls2tracked_tracks[c]) :
             ( /\ t.is_activated
               /\ \A run \in Range(last'.log) :
                    \A k \in 1 .. Len(run.matched) : ~SameTrack(run.matched[k].before, t) )
             => /\ \A d \in Classes :
                     \A u \in Range(cls2tracked_tracks'[d]) : ~SameTrack(u, t)
                /\ \E l \in Range(lost_tracks') :
                     SameTrack(l, t) /\ l.state = "Lost" ]_vars

\* C20: a track that is unconfirmed (is_activated false) in a tracked set when
\* an update call starts and that the call does not match is, when the call
\* returns, in no tracked set and, wherever the tracker still holds it, in
\* state Removed; also when its class had no detection in the call.
C20_UnconfirmedOneChance ==
  [][ last'.op = "update"
      => \A c \in Classes :
           \A t \in Range(cls2tracked_tracks[c]) :
             ( /\ ~t.is_activated
               /\ \A run \in Range(last'.log) :
                    \A k \in 1 .. Len(run.matched) : ~SameTrack(run.matched[k].before, t) )
             => /\ \A d \in Classes :
                     \A u \in Range(cls2tracked_tracks'[d]) : ~SameTrack(u, t)
                /\ \A l \in Range(lost_tracks') : ~SameTrack(l, t)
                /\ \E r \in Range(removed_tracks') :
                     SameTrack(r, t) /\ r.state = "Removed" ]_vars

\* C16: when an update call returns, no track in state Removed is in the lost
\* list or in a tracked set.  Stated for calls that ran one class on a
\* tracker all of whose tracks are of that class.
C16_NoRemovedMember ==
  (Updated /\ Len(last.log) = 1
     /\ \A t \in Range(Live) : t.cls = last.log[1].cls)
    => \A t \in Range(Live) : t.state # "Removed"

\* C17: in every round of an update call the tracks created are, in order,
\* the detections that are high-confidence, were left unmatched by the first
\* association and by the association with the unconfirmed tracks, and have
\* score >= det_thresh; every high-confidence detection not left over was
\* matched to a track; each created track draws one internal id, the next
\* of the counter, and nothing else draws one.
Described(track) == [tlwh |-> track.tlwh, score |-> track.score]
AtLeastDetThresh(det) == det.score >= det_thresh
C17_BirthRule ==
  Updated =>
    \A run \in Runs :
      /\ \A k \in 1 .. Len(run.left) : run.left[k].score > track_activation_threshold
      /\ Len(run.left) <= run.u_first
      /\ run.u_first <= Len(run.scores_keep)
      /\ Len(run.matched) >= Len(run.scores_keep) - Len(run.left)
      /\ Tup([k \in 1 .. Len(run.born) |-> Described(run.born[k])])
           = SelectSeq(run.left, AtLeastDetThresh)
      /\ run.iid_after - run.iid_before = Len(run.born)
      /\ \A k \in 1 .. Len(run.born) :
           run.born[k].internal_track_id = run.iid_before + k - 1
C17_Witness ==
  /\ Updated
  /\ \E run \in Runs :
       /\ \E k \in 1 .. Len(run.left) : run.left[k].score = det_thresh
       /\ \E k \in 1 .. Len(run.left) : run.left[k].score < det_thresh
       /\ Len(run.born) = 1
       /\ run.born[1].score = det_thresh
       /\ run.iid_before > 0
       /\ run.scores_second = <<>>

\* C18: at the end of every round, of the tracked list a and the lost list b
\* handed to the deduplication, a lost track goes exactly when some tracked
\* track is closer to it than 0.15 and has been active strictly longer, a
\* tracked track goes exactly when some lost track is closer to it than 0.15
\* and has been active as long or longer, and all other tracks stay, in
\* order; no tracked/lost pair closer than 0.15 is left, and the id of a
\* tracked track that went is not in the array the call returns (while ids
\* are unique, i.e. before any reset).
Duplicates(a, b) == RatLess(iou_distance(<<a>>, <<b>>)[1][1], Hundredths(15))
ActiveFor(t) == t.frame_id - t.start_frame
C18_Deduplication ==
  Updated =>
    \A run \in Runs :
      LET KeepA(a) == ~\E b \in Range(run.before_dedup.b) :
                         Duplicates(a, b) /\ ActiveFor(a) <= ActiveFor(b)
          KeepB(b) == ~\E a \in Range(run.before_dedup.a) :
                         Duplicates(a, b) /\ ActiveFor(a) > ActiveFor(b)
      IN  /\ run.after_dedup.a = SelectSeq(run.before_dedup.a, KeepA)
          /\ run.after_dedup.b = SelectSeq(run.before_dedup.b, KeepB)
          /\ \A a \in Range(run.after_dedup.a), b \in Range(run.after_dedup.b) :
               ~Duplicates(a, b)
          /\ \A a \in Range(run.before_dedup.a) :
               (NoReset /\ ~KeepA(a) /\ a.external_track_id # NO_ID)
                 => \A i \in 1 .. Len(last.out) : last.out[i] # a.external_track_id
C18_Witness ==
  /\ Updated
  /\ \E run \in Runs :
       /\ NoReset
       /\ Len(run.after_dedup.a) < Len(run.before_dedup.a)
       /\ \E a \in Range(run.before_dedup.a), b \in Range(run.before_dedup.b) :
            /\ Duplicates(a, b)
            /\ ActiveFor(a) = ActiveFor(b)
            /\ ActiveFor(a) > 0
            /\ a.external_track_id # NO_ID

\* C21: in a sequence of update calls without reset, the array an update call
\* returns holds no track id >= 0 at two positions, whether the two
\* detections are of one class or of two; only -1 may repeat.
C21_NoRepeatedId ==
  (last.op \in {"update", "update_invalid"} /\ NoReset)
    => \A i, j \in 1 .. Len(last.out) :
         (i # j /\ last.out[i] >= 0) => last.out[i] # last.out[j]
C21_Witness ==
  /\ Updated
  /\ NoReset
  /\ Len(last.out) = 2
  /\ last.out[1] >= 0
  /\ last.out[2] >= 0
  /\ last.cls_array[1] # last.cls_array[2]
  /\ last.xyxy_array[1] = last.xyxy_array[2]
  /\ \E run \in Runs :
       \E k \in 1 .. Len(run.matched) :
         /\ run.matched[k].via = "re_activate"
         /\ run.matched[k].before.cls # run.cls

====
